---- MODULE Spec2Model ----
(***************************************************************************)
(* A model of jupiter-swap-api-client: the field codecs (textual value,    *)
(* optional textual value, base-64 payload), the wire-shaped mirror types  *)
(* and their conversion to the domain types, the building of the quote and *)
(* swap requests, and the transport adapter of JupiterSwapApiClient.       *)
(*                                                                         *)
(* Texts are sequences of one-character strings, byte strings sequences of *)
(* numbers in 0..255.  Result values are records [ok, v, err].              *)
(***************************************************************************)
EXTENDS Integers, Sequences, FiniteSets, TLC

VARIABLES
    base_path,   \* JupiterSwapApiClient.base_path
    client,      \* JupiterSwapApiClient.client (the handle of the connection pool)
    pc,          \* per call: where the call's future stands
    op,          \* per call: the operation called
    request,     \* per call: the HTTP request the call built
    response,    \* per call: the HTTP response the call received
    result,      \* per call: the Result the call returned
    arg,         \* the argument of the function under study
    mid,         \* its intermediate value (the wire form)
    ret,         \* its result
    step         \* its position

vars == <<base_path, client, pc, op, request, response, result, arg, mid, ret, step>>

transportVars == <<base_path, client, pc, op, request, response, result>>

pureVars == <<arg, mid, ret, step>>

-----------------------------------------------------------------------------
(* Bounds of the model *)

\* Calls issued concurrently on one client.
NumCalls == 2

\* Longest binary payload drawn as an input.
MaxData == 3

\* Longest text drawn as an input of a codec.
MaxText == 3

\* Most account references in a wire instruction.
MaxAccounts == 2

\* Most address-lookup-table addresses in a wire response.
MaxLuts == 2

\* Most entries of a passthrough map.
MaxArgs == 2

\* Width of an address in bytes (solana_sdk's Pubkey is 32 bytes wide; the
\* model keeps the codec and narrows the width).
PubkeyBytes == 1

-----------------------------------------------------------------------------
(* Result and Option *)

\* a response body that is no JSON document
TextBody(t) == [kind |-> "text", text |-> t, doc |-> <<>>]

\* a response body that is the JSON document j
JsonBody(j) == [kind |-> "json", text |-> "", doc |-> <<j>>]

\* String::default()
EmptyBody == TextBody("")

\* an error is a record [variant, status, body, source]; NoError is none
NoError == [variant |-> "none", status |-> 0, body |-> EmptyBody, source |-> "none"]

Ok(x) == [ok |-> TRUE, v |-> <<x>>, err |-> NoError]

Err(e) == [ok |-> FALSE, v |-> <<>>, err |-> e]

\* the error of a deserializer or codec (serde's de::Error), msg its diagnostic
Fail(msg) ==
    Err([variant |-> "de::Error", status |-> 0, body |-> EmptyBody, source |-> msg])

\* a result not there yet
Pending == Err(NoError)

Unwrap(r) == r.v[1]

None == <<>>

Some(x) == <<x>>

RECURSIVE SeqsUpTo(_, _)
\* every sequence over S of length at most n
SeqsUpTo(S, n) ==
    IF n = 0 THEN {<<>>}
    ELSE LET shorter == SeqsUpTo(S, n - 1)
         IN  shorter \cup {Append(s, x) : s \in {t \in shorter : Len(t) = n - 1}, x \in S}

Pos(alphabet, ch) == CHOOSE i \in 1..Len(alphabet) : alphabet[i] = ch

InAlphabet(alphabet, ch) == \E i \in 1..Len(alphabet) : alphabet[i] = ch

RECURSIVE Pow(_, _)
Pow(b, e) == IF e = 0 THEN 1 ELSE b * Pow(b, e - 1)

-----------------------------------------------------------------------------
(* The binary-payload codec: swap.rs, mod base64_serialize_deserialize *)

\* base64::engine::general_purpose::STANDARD: the standard alphabet
STANDARD ==
    << "A","B","C","D","E","F","G","H","I","J","K","L","M","N","O","P",
       "Q","R","S","T","U","V","W","X","Y","Z","a","b","c","d","e","f",
       "g","h","i","j","k","l","m","n","o","p","q","r","s","t","u","v",
       "w","x","y","z","0","1","2","3","4","5","6","7","8","9","+","/" >>

\* STANDARD's padding character
PAD == "="

Sym(i) == STANDARD[i + 1]

Val(ch) == Pos(STANDARD, ch) - 1

RECURSIVE encode_string(_)
\* STANDARD.encode_string: three bytes to four symbols, the rest padded
encode_string(v) ==
    IF Len(v) = 0 THEN <<>>
    ELSE IF Len(v) = 1 THEN
        << Sym(v[1] \div 4), Sym((v[1] % 4) * 16), PAD, PAD >>
    ELSE IF Len(v) = 2 THEN
        << Sym(v[1] \div 4), Sym((v[1] % 4) * 16 + v[2] \div 16),
           Sym((v[2] % 16) * 4), PAD >>
    ELSE
        << Sym(v[1] \div 4), Sym((v[1] % 4) * 16 + v[2] \div 16),
           Sym((v[2] % 16) * 4 + v[3] \div 64), Sym(v[3] % 64) >>
        \o encode_string(SubSeq(v, 4, Len(v)))

\* the same without the padding (the STANDARD_NO_PAD engine)
encode_string_no_pad(v) == SelectSeq(encode_string(v), LAMBDA ch : ch # PAD)

\* the bytes of one group of four symbols; last: the group ends the input
DecodeGroup(g, last) ==
    IF \A i \in 1..4 : InAlphabet(STANDARD, g[i]) THEN
        Ok(<< Val(g[1]) * 4 + Val(g[2]) \div 16,
              (Val(g[2]) % 16) * 16 + Val(g[3]) \div 4,
              (Val(g[3]) % 4) * 64 + Val(g[4]) >>)
    ELSE IF last /\ InAlphabet(STANDARD, g[1]) /\ InAlphabet(STANDARD, g[2])
                 /\ InAlphabet(STANDARD, g[3]) /\ g[4] = PAD THEN
        IF Val(g[3]) % 4 = 0
        THEN Ok(<< Val(g[1]) * 4 + Val(g[2]) \div 16,
                   (Val(g[2]) % 16) * 16 + Val(g[3]) \div 4 >>)
        ELSE Fail("InvalidLastSymbol")
    ELSE IF last /\ InAlphabet(STANDARD, g[1]) /\ InAlphabet(STANDARD, g[2])
                 /\ g[3] = PAD /\ g[4] = PAD THEN
        IF Val(g[2]) % 16 = 0
        THEN Ok(<< Val(g[1]) * 4 + Val(g[2]) \div 16 >>)
        ELSE Fail("InvalidLastSymbol")
    ELSE Fail("InvalidByte")

RECURSIVE decode_vec(_)
\* STANDARD.decode_vec: canonical padding required, no trailing bits allowed
decode_vec(s) ==
    IF Len(s) = 0 THEN Ok(<<>>)
    ELSE IF Len(s) < 4 THEN
        IF \A i \in 1..Len(s) : InAlphabet(STANDARD, s[i])
        THEN Fail("InvalidPadding") ELSE Fail("InvalidByte")
    ELSE LET head == DecodeGroup(SubSeq(s, 1, 4), Len(s) = 4)
         IN  IF ~head.ok THEN head
             ELSE LET tail == decode_vec(SubSeq(s, 5, Len(s)))
                  IN  IF tail.ok THEN Ok(Unwrap(head) \o Unwrap(tail)) ELSE tail

\* serialize with the padding left out
base64_serialize_no_pad(v) == encode_string_no_pad(v)

\* base64_serialize_deserialize::serialize: the JSON string written for v
base64_serialize(v) == encode_string(v)

\* base64_serialize_deserialize::deserialize of the JSON string field_string
base64_deserialize(field_string) ==
    LET r == decode_vec(field_string)
    IN  IF r.ok THEN r ELSE Fail("base64 decoding error")

-----------------------------------------------------------------------------
(* Addresses: solana_sdk's Pubkey, its Display and its FromStr (base-58) *)

\* the base-58 alphabet of bs58 (no "0", "O", "I", "l")
BASE58 ==
    << "1","2","3","4","5","6","7","8","9","A","B","C","D","E","F","G",
       "H","J","K","L","M","N","P","Q","R","S","T","U","V","W","X","Y",
       "Z","a","b","c","d","e","f","g","h","i","j","k","m","n","o","p",
       "q","r","s","t","u","v","w","x","y","z" >>

RECURSIVE SmallestLen(_, _)
\* the least l >= from with 58^l >= 256^PubkeyBytes
SmallestLen(from, limit) ==
    IF Pow(58, from) >= limit THEN from ELSE SmallestLen(from + 1, limit)

\* MAX_BASE58_LEN: the longest rendering of an address (44 for 32 bytes)
MAX_BASE58_LEN == SmallestLen(1, Pow(256, PubkeyBytes))

RECURSIVE BytesToNat(_)
BytesToNat(b) ==
    IF Len(b) = 0 THEN 0 ELSE BytesToNat(SubSeq(b, 1, Len(b) - 1)) * 256 + b[Len(b)]

RECURSIVE NatToBytes(_)
\* big-endian, no leading zero byte
NatToBytes(n) == IF n = 0 THEN <<>> ELSE Append(NatToBytes(n \div 256), n % 256)

RECURSIVE NatToBase58(_)
NatToBase58(n) ==
    IF n = 0 THEN <<>> ELSE Append(NatToBase58(n \div 58), BASE58[(n % 58) + 1])

RECURSIVE Base58ToNat(_)
Base58ToNat(s) ==
    IF Len(s) = 0 THEN 0
    ELSE Base58ToNat(SubSeq(s, 1, Len(s) - 1)) * 58 + (Pos(BASE58, s[Len(s)]) - 1)

RECURSIVE LeadingCount(_, _)
\* how many copies of x the sequence s starts with
LeadingCount(s, x) ==
    IF Len(s) = 0 \/ s[1] # x THEN 0 ELSE 1 + LeadingCount(Tail(s), x)

Repeat(x, n) == [i \in 1..n |-> x]

\* bs58::encode: a "1" per leading zero byte, then the number's digits
bs58_encode(b) == Repeat("1", LeadingCount(b, 0)) \o NatToBase58(BytesToNat(b))

\* bs58::decode: a zero byte per leading "1", then the number's bytes
bs58_decode(s) ==
    IF \E i \in 1..Len(s) : ~InAlphabet(BASE58, s[i]) THEN Fail("InvalidCharacter")
    ELSE Ok(Repeat(0, LeadingCount(s, "1")) \o NatToBytes(Base58ToNat(s)))

\* <Pubkey as Display>::fmt: the text collect_str writes
PubkeyToString(key) == bs58_encode(key)

\* <Pubkey as FromStr>::from_str: what s.parse() returns
PubkeyFromStr(s) ==
    IF Len(s) > MAX_BASE58_LEN THEN Fail("WrongSize")
    ELSE LET d == bs58_decode(s)
         IN  IF ~d.ok THEN Fail("Invalid")
             ELSE IF Len(Unwrap(d)) # PubkeyBytes THEN Fail("WrongSize")
             ELSE Ok(Unwrap(d))

-----------------------------------------------------------------------------
(* JSON values at a field: st says what the document holds there *)

\* the object has no such key
Absent == [st |-> "absent", v |-> <<>>]

\* the JSON value null
Null == [st |-> "null", v |-> <<>>]

\* a JSON string
Str(s) == [st |-> "str", v |-> s]

\* a JSON value of a type the field does not take
Other == [st |-> "other", v |-> <<>>]

\* a JSON boolean
Bool(b) == [st |-> "bool", v |-> <<b>>]

\* a JSON number
Num(n) == [st |-> "num", v |-> <<n>>]

\* a JSON array of the values elems
Arr(elems) == [st |-> "arr", v |-> elems]

\* a JSON object, o its fields
Obj(o) == [st |-> "obj", v |-> <<o>>]

-----------------------------------------------------------------------------
(* The textual-value codec: serde_helpers/field_as_string.rs, for T = Pubkey *)

\* field_as_string::serialize
field_as_string_serialize(t) == Str(PubkeyToString(t))

\* field_as_string::deserialize of the JSON value j
field_as_string_deserialize(j) ==
    IF j.st # "str" THEN Fail("invalid type")
    ELSE LET r == PubkeyFromStr(j.v)
         IN  IF r.ok THEN r ELSE Fail("Parse error")

-----------------------------------------------------------------------------
(* The optional-textual-value codec: serde_helpers/option_field_as_string.rs *)

\* option_field_as_string::serialize
option_field_as_string_serialize(t) ==
    IF t = None THEN Null ELSE Str(PubkeyToString(t[1]))

\* deserialize with a failed parse read as absence (.parse().ok())
option_field_as_string_deserialize_lenient(j) ==
    IF j.st = "null" THEN Ok(None)
    ELSE IF j.st # "str" THEN Fail("invalid type")
    ELSE LET r == PubkeyFromStr(j.v)
         IN  IF r.ok THEN Ok(Some(Unwrap(r))) ELSE Ok(None)

\* option_field_as_string::deserialize of the JSON value j
option_field_as_string_deserialize(j) ==
    IF j.st = "null" THEN Ok(None)
    ELSE IF j.st # "str" THEN Fail("invalid type")
    ELSE LET r == PubkeyFromStr(j.v)
         IN  IF r.ok THEN Ok(Some(Unwrap(r))) ELSE Fail("Parse error")

-----------------------------------------------------------------------------
(* The wire-shaped mirror types of swap.rs and their Deserialize.  A field *)
(* that is present is read by its codec, in the order of declaration; a    *)
(* required field the object lacks is reported when the object ends.       *)

\* the first error of the results rs, or Ok of all their values
Collect(rs) ==
    IF \A i \in 1..Len(rs) : rs[i].ok
    THEN Ok([i \in 1..Len(rs) |-> Unwrap(rs[i])])
    ELSE rs[CHOOSE i \in 1..Len(rs) :
                ~rs[i].ok /\ \A k \in 1..(i - 1) : rs[k].ok]

\* the first error among the present fields' results, else the missing
\* field, else none
FirstError(slots, rs) ==
    IF \E i \in 1..Len(rs) : slots[i].st # "absent" /\ ~rs[i].ok
    THEN rs[CHOOSE i \in 1..Len(rs) :
                /\ slots[i].st # "absent" /\ ~rs[i].ok
                /\ \A k \in 1..(i - 1) : slots[k].st = "absent" \/ rs[k].ok].err.source
    ELSE IF \E i \in 1..Len(slots) : slots[i].st = "absent" THEN "missing field"
    ELSE "none"

\* bool::deserialize
bool_deserialize(j) == IF j.st = "bool" THEN Ok(j.v[1]) ELSE Fail("invalid type")

\* the struct built from the fields read, or the first error among them
AccountMetaInternal_visit(slots, rs) ==
    IF FirstError(slots, rs) # "none" THEN Fail(FirstError(slots, rs))
    ELSE Ok([pubkey |-> Unwrap(rs[1]),
             is_signer |-> Unwrap(rs[2]),
             is_writable |-> Unwrap(rs[3])])

\* a flag read with #[serde(default)]: false when the object lacks it
flag_deserialize_defaulting(j) ==
    IF j.st = "absent" THEN Ok(FALSE) ELSE bool_deserialize(j)

\* AccountMetaInternal with #[serde(default)] on its flags
AccountMetaInternal_fields_defaulting(o) ==
    AccountMetaInternal_visit(
        << o.pubkey, Bool(FALSE), Bool(FALSE) >>,
        << field_as_string_deserialize(o.pubkey),
           flag_deserialize_defaulting(o.isSigner),
           flag_deserialize_defaulting(o.isWritable) >>)

\* the fields of AccountMetaInternal, each read by its deserializer
AccountMetaInternal_fields(o) ==
    AccountMetaInternal_visit(
        << o.pubkey, o.isSigner, o.isWritable >>,
        << field_as_string_deserialize(o.pubkey),
           bool_deserialize(o.isSigner),
           bool_deserialize(o.isWritable) >>)

\* #[derive(Deserialize)] struct AccountMetaInternal
AccountMetaInternal_deserialize(j) ==
    IF j.st # "obj" THEN Fail("invalid type") ELSE AccountMetaInternal_fields(j.v[1])

\* Vec<AccountMetaInternal>::deserialize
AccountMetaInternalVec_deserialize(j) ==
    IF j.st # "arr" THEN Fail("invalid type")
    ELSE Collect([i \in 1..Len(j.v) |-> AccountMetaInternal_deserialize(j.v[i])])

\* the base-64 field: String::deserialize, then the codec
base64_field_deserialize(j) ==
    IF j.st # "str" THEN Fail("invalid type") ELSE base64_deserialize(j.v)

\* the struct built from the fields read, or the first error among them
InstructionInternal_visit(slots, rs) ==
    IF FirstError(slots, rs) # "none" THEN Fail(FirstError(slots, rs))
    ELSE Ok([program_id |-> Unwrap(rs[1]),
             accounts |-> Unwrap(rs[2]),
             data |-> Unwrap(rs[3])])

\* #[derive(Deserialize)] struct InstructionInternal
InstructionInternal_deserialize(j) ==
    IF j.st # "obj" THEN Fail("invalid type")
    ELSE InstructionInternal_visit(
             << j.v[1].programId, j.v[1].accounts, j.v[1].data >>,
             << field_as_string_deserialize(j.v[1].programId),
                AccountMetaInternalVec_deserialize(j.v[1].accounts),
                base64_field_deserialize(j.v[1].data) >>)

\* the newtype built from its one field
PubkeyInternal_wrap(r) == IF r.ok THEN Ok([f0 |-> Unwrap(r)]) ELSE r

\* #[derive(Deserialize)] struct PubkeyInternal(Pubkey): a newtype, read as
\* its one field is
PubkeyInternal_deserialize(j) == PubkeyInternal_wrap(field_as_string_deserialize(j))

\* Vec<PubkeyInternal>::deserialize
PubkeyInternalVec_deserialize(j) ==
    IF j.st # "arr" THEN Fail("invalid type")
    ELSE Collect([i \in 1..Len(j.v) |-> PubkeyInternal_deserialize(j.v[i])])

\* the struct built from the fields read, or the first error among them
SwapInstructionsResponseInternal_visit(slots, rs) ==
    IF FirstError(slots, rs) # "none" THEN Fail(FirstError(slots, rs))
    ELSE Ok([swap_instruction |-> Unwrap(rs[1]),
             address_lookup_table_addresses |-> Unwrap(rs[2])])

\* #[derive(Deserialize)] struct SwapInstructionsResponseInternal
SwapInstructionsResponseInternal_deserialize(j) ==
    IF j.st # "obj" THEN Fail("invalid type")
    ELSE SwapInstructionsResponseInternal_visit(
             << j.v[1].swapInstruction, j.v[1].addressLookupTableAddresses >>,
             << InstructionInternal_deserialize(j.v[1].swapInstruction),
                PubkeyInternalVec_deserialize(j.v[1].addressLookupTableAddresses) >>)

-----------------------------------------------------------------------------
(* The conversions from the mirror types to the domain types: swap.rs *)

\* impl From<AccountMetaInternal> for AccountMeta
AccountMeta_from(val) ==
    [pubkey |-> val.pubkey, is_signer |-> val.is_signer, is_writable |-> val.is_writable]

\* the conversion with the accounts collected back to front
Instruction_from_reversed(val) ==
    [program_id |-> val.program_id,
     accounts |-> [i \in 1..Len(val.accounts) |->
                      AccountMeta_from(val.accounts[Len(val.accounts) + 1 - i])],
     data |-> val.data]

\* impl From<InstructionInternal> for Instruction
Instruction_from(val) ==
    [program_id |-> val.program_id,
     accounts |-> [i \in 1..Len(val.accounts) |-> AccountMeta_from(val.accounts[i])],
     data |-> val.data]

\* impl From<SwapInstructionsResponseInternal> for SwapInstructionsResponse
SwapInstructionsResponse_from(value) ==
    [swap_instruction |-> Instruction_from(value.swap_instruction),
     address_lookup_table_addresses |->
         [i \in 1..Len(value.address_lookup_table_addresses) |->
             value.address_lookup_table_addresses[i].f0]]

-----------------------------------------------------------------------------
(* HTTP responses and ClientError: lib.rs *)

Response(status, readable, body) ==
    [status |-> status, readable |-> readable, body |-> body]

\* StatusCode::is_success
is_success(status) == 200 <= status /\ status <= 299

\* ClientError::RequestFailed { status, body }
RequestFailed(status, body) ==
    [variant |-> "RequestFailed", status |-> status, body |-> body, source |-> "none"]

\* ClientError::DeserializationError(reqwest::Error)
DeserializationError(source) ==
    [variant |-> "DeserializationError", status |-> 0, body |-> EmptyBody, source |-> source]

\* ClientError::SimdJsonError(simd_json::Error)
SimdJsonError(source) ==
    [variant |-> "SimdJsonError", status |-> 0, body |-> EmptyBody, source |-> source]

\* check_is_success without the check of the status
check_is_success_unchecked(resp) == Ok(resp)

\* check_is_success
check_is_success(resp) ==
    IF ~is_success(resp.status)
    THEN Err(RequestFailed(resp.status,
                           IF resp.readable THEN resp.body ELSE EmptyBody))
    ELSE Ok(resp)

\* serde_json::Value as the flattened field of HealthResponse: any object
HealthResponse_deserialize(j) ==
    IF j.st = "obj" THEN Ok([data |-> j.v[1]]) ELSE Fail("invalid type")

\* QuoteResponse, an opaque document: an object of the expected shape
QuoteResponse_deserialize(j) ==
    IF j.st # "obj" THEN Fail("invalid type")
    ELSE IF ~j.v[1].complete THEN Fail("missing field")
    ELSE Ok(j.v[1])

\* u64::deserialize, u32::deserialize
number_deserialize(j) == IF j.st = "num" THEN Ok(j.v[1]) ELSE Fail("invalid type")

\* Option<T>::deserialize of a nested document, T read as it stands
option_deserialize(j) ==
    IF j.st \in {"absent", "null"} THEN Ok(None)
    ELSE IF j.st = "obj" THEN Ok(Some(j.v[1]))
    ELSE Fail("invalid type")

\* the struct built from the fields read, or the first error among them
SwapResponse_visit(slots, rs, opts) ==
    IF FirstError(slots, rs) # "none" THEN Fail(FirstError(slots, rs))
    ELSE IF \E i \in 1..3 : ~opts[i].ok THEN Fail("invalid type")
    ELSE Ok([swap_transaction |-> Unwrap(rs[1]),
             last_valid_block_height |-> Unwrap(rs[2]),
             prioritization_fee_lamports |-> Unwrap(rs[3]),
             compute_unit_limit |-> Unwrap(rs[4]),
             prioritization_type |-> Unwrap(opts[1]),
             dynamic_slippage_report |-> Unwrap(opts[2]),
             simulation_error |-> Unwrap(opts[3])])

\* #[derive(Deserialize)] struct SwapResponse
SwapResponse_deserialize(j) ==
    IF j.st # "obj" THEN Fail("invalid type")
    ELSE SwapResponse_visit(
             << j.v[1].swapTransaction, j.v[1].lastValidBlockHeight,
                j.v[1].prioritizationFeeLamports, j.v[1].computeUnitLimit >>,
             << base64_field_deserialize(j.v[1].swapTransaction),
                number_deserialize(j.v[1].lastValidBlockHeight),
                number_deserialize(j.v[1].prioritizationFeeLamports),
                number_deserialize(j.v[1].computeUnitLimit) >>,
             << option_deserialize(j.v[1].prioritizationType),
                option_deserialize(j.v[1].dynamicSlippageReport),
                option_deserialize(j.v[1].simulationError) >>)

\* T::deserialize for the T a call asks for
Deserialize(T, j) ==
    CASE T = "QuoteResponse" -> QuoteResponse_deserialize(j)
      [] T = "SwapResponse" -> SwapResponse_deserialize(j)
      [] T = "SwapInstructionsResponseInternal" ->
             SwapInstructionsResponseInternal_deserialize(j)
      [] T = "HealthResponse" -> HealthResponse_deserialize(j)

\* .map_err(ClientError::JsonError)
map_err_JsonError(d) ==
    IF d.ok THEN d
    ELSE Err([variant |-> "JsonError", status |-> 0, body |-> EmptyBody,
              source |-> d.err.source])

\* .map_err(ClientError::SimdJsonError)
map_err_SimdJsonError(d) == IF d.ok THEN d ELSE Err(SimdJsonError(d.err.source))

\* .map_err(ClientError::DeserializationError)
map_err_DeserializationError(d) == IF d.ok THEN d ELSE Err(DeserializationError("decode"))

\* the parse of the body as JSON, then T::deserialize
parse_json(T, body) ==
    IF body.kind # "json" THEN Fail("syntax") ELSE Deserialize(T, body.doc[1])

\* from_slice through serde_json, its error mapped to ClientError::JsonError
from_slice_serde_json(T, body) == map_err_JsonError(parse_json(T, body))

\* simd_json::from_slice(..).map_err(ClientError::SimdJsonError)
from_slice(T, body) == map_err_SimdJsonError(parse_json(T, body))

\* check_status_code_and_deserialize::<T>
check_status_code_and_deserialize(T, resp) ==
    IF ~check_is_success(resp).ok THEN check_is_success(resp)
    ELSE IF ~resp.readable THEN Err(DeserializationError("body"))
    ELSE from_slice(T, resp.body)

\* Result::map(Into::into) on the result of swap_instructions
map_into(r) == IF r.ok THEN Ok(SwapInstructionsResponse_from(Unwrap(r))) ELSE r

\* response.json::<HealthResponse>().map_err(ClientError::DeserializationError)
response_json(T, resp) ==
    IF ~resp.readable THEN Err(DeserializationError("body"))
    ELSE map_err_DeserializationError(parse_json(T, resp.body))

-----------------------------------------------------------------------------
(* The requests the client builds: lib.rs.  A query string is a sequence  *)
(* of <<key, value>> pairs, a passthrough map the sequence of its entries *)
(* in the order the map yields them.                                      *)

DIGITS == <<"0", "1", "2", "3", "4", "5", "6", "7", "8", "9">>

RECURSIVE NatToDigits(_)
NatToDigits(n) == IF n = 0 THEN <<>> ELSE Append(NatToDigits(n \div 10), DIGITS[(n % 10) + 1])

\* <u64 as Display>::fmt
NatToDecimal(n) == IF n = 0 THEN <<"0">> ELSE NatToDigits(n)

\* InternalQuoteRequest::from(quote_request): the fixed fields, without the
\* passthrough map
InternalQuoteRequest_from(quote_request) ==
    [input_mint |-> quote_request.input_mint,
     output_mint |-> quote_request.output_mint,
     amount |-> quote_request.amount]

\* the query pairs InternalQuoteRequest serializes to
InternalQuoteRequest_serialize(internal) ==
    << <<"inputMint", PubkeyToString(internal.input_mint)>>,
       <<"outputMint", PubkeyToString(internal.output_mint)>>,
       <<"amount", NatToDecimal(internal.amount)>> >>

\* the keys of the fixed fields of a quote
FixedKeys == {"inputMint", "outputMint", "amount"}

\* the query pairs Option<HashMap<String, String>> serializes to
extra_args_serialize(extra_args) == IF extra_args = None THEN <<>> ELSE extra_args[1]

\* a query call that sets the query string instead of adding to it
query_replacing(pairs, more) == IF more = <<>> THEN pairs ELSE more

\* RequestBuilder::query: the pairs are added to the query string
query(pairs, more) == pairs \o more

\* SwapRequest serialized as the JSON body: config flattened beside the
\* request's own fields
SwapRequest_serialize(swap_request) ==
    [userPublicKey |-> field_as_string_serialize(swap_request.user_public_key),
     quoteResponse |-> swap_request.quote_response,
     dynamicComputeUnitLimit |-> swap_request.config.dynamic_compute_unit_limit]

\* the request quote() sends
quote_build(base, quote_request) ==
    [method |-> "GET",
     url |-> <<base, "/quote">>,
     query |-> query(query(<<>>, InternalQuoteRequest_serialize(
                                     InternalQuoteRequest_from(quote_request))),
                     extra_args_serialize(quote_request.quote_args)),
     json |-> None]

\* the request swap() sends
swap_build(base, swap_request, extra_args) ==
    [method |-> "POST",
     url |-> <<base, "/swap">>,
     query |-> query(<<>>, extra_args_serialize(extra_args)),
     json |-> Some(SwapRequest_serialize(swap_request))]

\* the request swap_instructions() sends
swap_instructions_build(base, swap_request) ==
    [method |-> "POST",
     url |-> <<base, "/swap-instructions">>,
     query |-> <<>>,
     json |-> Some(SwapRequest_serialize(swap_request))]

\* the request health() sends
health_build(base) ==
    [method |-> "GET", url |-> <<base, "/health">>, query |-> <<>>, json |-> None]

\* the keys of a query string
QueryKeys(q) == {q[i][1] : i \in 1..Len(q)}

\* what a server that keeps one value per key reads from a query string:
\* under "first" the first value given for a key, under "last" the last
ServerReads(q, rule) ==
    [k \in QueryKeys(q) |->
        LET at == {i \in 1..Len(q) : q[i][1] = k}
            pick == IF rule = "first"
                    THEN CHOOSE i \in at : \A o \in at : i <= o
                    ELSE CHOOSE i \in at : \A o \in at : i >= o
        IN  q[pick][2]]

-----------------------------------------------------------------------------
(* Inputs of the codecs *)

\* bytes drawn for payloads
ByteSample == {0, 1, 2, 3, 127, 255}

\* characters drawn for texts: base-58 digits, and "0" and "l", which are none
TextChars == {"1", "2", "5", "z", "0", "l"}

Payloads == SeqsUpTo(ByteSample, MaxData)

Texts == SeqsUpTo(TextChars, MaxText)

\* the state of the client and its calls, untouched by the codecs
Calls == 1..NumCalls

NoRequest == [method |-> "", url |-> <<>>, query |-> <<>>, json |-> None]

NoResponse == Response(0, FALSE, EmptyBody)

TransportInit ==
    /\ base_path = "https://quote-api"
    /\ client = "pool"
    /\ pc = [c \in Calls |-> "idle"]
    /\ op = [c \in Calls |-> "none"]
    /\ request = [c \in Calls |-> NoRequest]
    /\ response = [c \in Calls |-> NoResponse]
    /\ result = [c \in Calls |-> Pending]

-----------------------------------------------------------------------------
(* The base-64 codec as a state machine: a payload is serialized, and the *)
(* string written is deserialized again.                                  *)

InitB64 ==
    /\ TransportInit
    /\ arg \in Payloads
    /\ mid = <<>>
    /\ ret = Pending
    /\ step = "start"

B64Serialize ==
    /\ step = "start"
    /\ mid' = base64_serialize(arg)
    /\ step' = "serialized"
    /\ UNCHANGED <<arg, ret>>
    /\ UNCHANGED transportVars

B64Deserialize ==
    /\ step = "serialized"
    /\ ret' = base64_deserialize(mid)
    /\ step' = "deserialized"
    /\ UNCHANGED <<arg, mid>>
    /\ UNCHANGED transportVars

NextB64 == B64Serialize \/ B64Deserialize

SpecB64 == InitB64 /\ [][NextB64]_vars

\* C7: the binary-payload codec round-trips exactly: the string written for a
\* payload is standard base-64 with padding (four symbols for every three
\* bytes begun, every symbol of the standard alphabet or a trailing "="),
\* and reading it back succeeds and yields the payload; [1,2,3] is written
\* "AQID" and "AQID" is read [1,2,3].
C7_RoundTrip ==
    /\ step \in {"serialized", "deserialized"} =>
          /\ Len(mid) = 4 * ((Len(arg) + 2) \div 3)
          /\ \A i \in 1..Len(mid) :
                \/ InAlphabet(STANDARD, mid[i])
                \/ mid[i] = PAD /\ i > Len(mid) - 2 /\ Len(arg) % 3 # 0
    /\ step = "deserialized" => ret.ok /\ Unwrap(ret) = arg
    /\ base64_serialize(<<1, 2, 3>>) = <<"A", "Q", "I", "D">>
    /\ base64_deserialize(<<"A", "Q", "I", "D">>) = Ok(<<1, 2, 3>>)

\* a payload whose length is no multiple of three has been written and read
C7_Witness ==
    /\ step = "deserialized"
    /\ Len(arg) % 3 # 0
    /\ mid[Len(mid)] = PAD
    /\ ret.ok

-----------------------------------------------------------------------------
(* The optional codec as a state machine: a JSON value is deserialized,   *)
(* and the optional read is serialized again.                             *)

InitOpt ==
    /\ TransportInit
    /\ arg \in {Null, Other} \cup {Str(s) : s \in Texts}
    /\ mid = Absent
    /\ ret = Pending
    /\ step = "start"

OptDeserialize ==
    /\ step = "start"
    /\ ret' = option_field_as_string_deserialize(arg)
    /\ step' = "deserialized"
    /\ UNCHANGED <<arg, mid>>
    /\ UNCHANGED transportVars

OptSerialize ==
    /\ step = "deserialized"
    /\ ret.ok
    /\ mid' = option_field_as_string_serialize(Unwrap(ret))
    /\ step' = "serialized"
    /\ UNCHANGED <<arg, ret>>
    /\ UNCHANGED transportVars

NextOpt == OptDeserialize \/ OptSerialize

SpecOpt == InitOpt /\ [][NextOpt]_vars

\* C8: the optional-textual-value codec never conflates absence with
\* invalidity: null is read as the empty optional, a text that parses as the
\* value it renders, a text that does not parse as an error; the empty
\* optional is written null and a present value as its text rendering.
C8_AbsenceIsNotInvalidity ==
    /\ step \in {"deserialized", "serialized"} =>
          /\ arg.st = "null" => ret = Ok(None)
          /\ arg.st = "str" /\ PubkeyFromStr(arg.v).ok =>
                ret = Ok(Some(Unwrap(PubkeyFromStr(arg.v))))
          /\ arg.st = "str" /\ ~PubkeyFromStr(arg.v).ok => ~ret.ok
    /\ step = "serialized" =>
          /\ Unwrap(ret) = None => mid = Null
          /\ Unwrap(ret) # None => mid = Str(PubkeyToString(Unwrap(ret)[1]))

\* a text that is no address has been read
C8_Witness ==
    /\ step = "deserialized"
    /\ arg.st = "str"
    /\ ~PubkeyFromStr(arg.v).ok
    /\ ~ret.ok

-----------------------------------------------------------------------------
(* swap_instructions from the response to the value returned, as a state  *)
(* machine: the status is checked, the body read and deserialized into    *)
(* the mirror type, and the mirror converted.                             *)

AddrA == Repeat(1, PubkeyBytes)

AddrB == Repeat(255, PubkeyBytes)

TextA == PubkeyToString(AddrA)

TextB == PubkeyToString(AddrB)

\* a text with a character outside base-58
BadCharText == <<"0">>

\* a text that decodes to one byte too many
WrongSizeText == Repeat("1", PubkeyBytes + 1)

AccountObj(p, sg, w) == Obj([pubkey |-> p, isSigner |-> sg, isWritable |-> w])

AccountSamples ==
    { AccountObj(Str(TextA), Bool(TRUE), Bool(FALSE)),
      AccountObj(Str(TextB), Bool(FALSE), Bool(TRUE)),
      AccountObj(Str(BadCharText), Bool(TRUE), Bool(FALSE)),
      AccountObj(Absent, Bool(TRUE), Bool(FALSE)),
      AccountObj(Str(TextA), Absent, Bool(FALSE)),
      AccountObj(Str(TextB), Bool(TRUE), Absent) }

\* "AQ==" is the payload [1]; "AQI" is no base-64
DataSamples == { Str(<<"A", "Q", "=", "=">>), Str(<<"A", "Q", "I">>), Absent }

InstructionSamples ==
    { Obj([programId |-> p, accounts |-> a, data |-> d]) :
        p \in {Str(TextA), Str(WrongSizeText), Absent},
        a \in {Arr(x) : x \in SeqsUpTo(AccountSamples, MaxAccounts)} \cup {Absent},
        d \in DataSamples }

LutSamples ==
    {Arr(x) : x \in SeqsUpTo({Str(TextA), Str(TextB), Str(BadCharText)}, MaxLuts)}
    \cup {Absent}

InstructionsDocs ==
    { Obj([swapInstruction |-> i, addressLookupTableAddresses |-> l]) :
        i \in InstructionSamples \cup {Absent}, l \in LutSamples }

\* a document every field of which is there and valid
GoodInstructionsDoc ==
    Obj([swapInstruction |->
             Obj([programId |-> Str(TextA),
                  accounts |-> Arr(<< AccountObj(Str(TextB), Bool(FALSE), Bool(TRUE)) >>),
                  data |-> Str(<<"A", "Q", "=", "=">>)]),
         addressLookupTableAddresses |-> Arr(<< Str(TextA) >>)])

InstructionsResponses ==
    {Response(200, TRUE, JsonBody(d)) : d \in InstructionsDocs}
    \cup { Response(200, FALSE, JsonBody(GoodInstructionsDoc)),
           Response(200, TRUE, TextBody("not json")),
           Response(200, TRUE, JsonBody(Other)),
           Response(500, TRUE, TextBody("internal error")),
           Response(500, FALSE, TextBody("internal error")),
           Response(404, TRUE, JsonBody(GoodInstructionsDoc)) }

\* what swap_instructions returns for the response resp
swap_instructions_returns(resp) ==
    map_into(check_status_code_and_deserialize("SwapInstructionsResponseInternal", resp))

InitInstr ==
    /\ TransportInit
    /\ arg \in InstructionsResponses
    /\ mid = Pending
    /\ ret = Pending
    /\ step = "received"

\* check_is_success fails: the error is returned through the ? and the map
InstrStatusFailed ==
    /\ step = "received"
    /\ ~check_is_success(arg).ok
    /\ ret' = map_into(check_is_success(arg))
    /\ step' = "returned"
    /\ UNCHANGED <<arg, mid>>
    /\ UNCHANGED transportVars

\* the status is a success: the body is read and deserialized
InstrDeserialize ==
    /\ step = "received"
    /\ check_is_success(arg).ok
    /\ mid' = check_status_code_and_deserialize("SwapInstructionsResponseInternal", arg)
    /\ step' = "deserialized"
    /\ UNCHANGED <<arg, ret>>
    /\ UNCHANGED transportVars

\* .map(Into::into), and the result returned
InstrConvert ==
    /\ step = "deserialized"
    /\ ret' = map_into(mid)
    /\ step' = "returned"
    /\ UNCHANGED <<arg, mid>>
    /\ UNCHANGED transportVars

NextInstr == InstrStatusFailed \/ InstrDeserialize \/ InstrConvert

SpecInstr == InitInstr /\ [][NextInstr]_vars

ValidAddressText(j) == j.st = "str" /\ PubkeyFromStr(j.v).ok

ValidBase64Text(j) == j.st = "str" /\ decode_vec(j.v).ok

WellFormedAccount(j) ==
    /\ j.st = "obj"
    /\ ValidAddressText(j.v[1].pubkey)
    /\ j.v[1].isSigner.st = "bool"
    /\ j.v[1].isWritable.st = "bool"

WellFormedInstruction(j) ==
    /\ j.st = "obj"
    /\ ValidAddressText(j.v[1].programId)
    /\ j.v[1].accounts.st = "arr"
    /\ \A i \in 1..Len(j.v[1].accounts.v) : WellFormedAccount(j.v[1].accounts.v[i])
    /\ ValidBase64Text(j.v[1].data)

WellFormedDoc(j) ==
    /\ j.st = "obj"
    /\ WellFormedInstruction(j.v[1].swapInstruction)
    /\ j.v[1].addressLookupTableAddresses.st = "arr"
    /\ \A i \in 1..Len(j.v[1].addressLookupTableAddresses.v) :
          ValidAddressText(j.v[1].addressLookupTableAddresses.v[i])

IsAddress(k) == Len(k) = PubkeyBytes /\ \A i \in 1..Len(k) : k[i] \in 0..255

\* a SwapInstructionsResponse with every field filled
CompleteResponse(r) ==
    /\ IsAddress(r.swap_instruction.program_id)
    /\ \A i \in 1..Len(r.swap_instruction.accounts) :
          /\ IsAddress(r.swap_instruction.accounts[i].pubkey)
          /\ r.swap_instruction.accounts[i].is_signer \in BOOLEAN
          /\ r.swap_instruction.accounts[i].is_writable \in BOOLEAN
    /\ \A i \in 1..Len(r.swap_instruction.data) : r.swap_instruction.data[i] \in 0..255
    /\ \A i \in 1..Len(r.address_lookup_table_addresses) :
          IsAddress(r.address_lookup_table_addresses[i])

\* C3: swap_instructions returns a SwapInstructionsResponse exactly when the
\* status is a success, the body was read, and the body is a JSON object in
\* which every field of the wire shape is present and accepted by its codec;
\* otherwise it returns an error.  A mirror value that deserialized always
\* converts, to a response with every field filled.
C3_NoPartialObject ==
    /\ step = "returned" =>
          /\ ret.ok <=> /\ is_success(arg.status)
                        /\ arg.readable
                        /\ arg.body.kind = "json"
                        /\ WellFormedDoc(arg.body.doc[1])
          /\ ret.ok => CompleteResponse(Unwrap(ret))
    /\ step = "returned" /\ mid.ok => ret.ok

\* a well-formed document has been returned as a response
C3_Witness ==
    /\ step = "returned"
    /\ ret.ok
    /\ Len(Unwrap(ret).swap_instruction.accounts) > 0

WireAccounts == arg.body.doc[1].v[1].swapInstruction.v[1].accounts.v

WireLuts == arg.body.doc[1].v[1].addressLookupTableAddresses.v

\* C4: the conversion keeps the account references of the wire instruction:
\* as many, in the same positions, each with its address and its two flags,
\* both against the mirror value and against the JSON array received; the
\* lookup-table addresses keep their number and order too.
C4_OrderPreserved ==
    step = "returned" /\ ret.ok =>
        LET dom == Unwrap(ret).swap_instruction.accounts
            wire == Unwrap(mid).swap_instruction.accounts
            luts == Unwrap(ret).address_lookup_table_addresses
        IN  /\ Len(dom) = Len(wire)
            /\ Len(dom) = Len(WireAccounts)
            /\ \A i \in 1..Len(dom) :
                  /\ dom[i].pubkey = wire[i].pubkey
                  /\ dom[i].is_signer = wire[i].is_signer
                  /\ dom[i].is_writable = wire[i].is_writable
                  /\ dom[i].pubkey = Unwrap(PubkeyFromStr(WireAccounts[i].v[1].pubkey.v))
                  /\ dom[i].is_signer = WireAccounts[i].v[1].isSigner.v[1]
                  /\ dom[i].is_writable = WireAccounts[i].v[1].isWritable.v[1]
            /\ Len(luts) = Len(WireLuts)
            /\ \A i \in 1..Len(luts) :
                  /\ luts[i] = Unwrap(mid).address_lookup_table_addresses[i].f0
                  /\ luts[i] = Unwrap(PubkeyFromStr(WireLuts[i].v))

\* an instruction with two different account references, and two different
\* lookup-table addresses, has been converted
C4_Witness ==
    /\ step = "returned"
    /\ ret.ok
    /\ Len(Unwrap(ret).swap_instruction.accounts) >= 2
    /\ Unwrap(ret).swap_instruction.accounts[1] # Unwrap(ret).swap_instruction.accounts[2]
    /\ Len(Unwrap(ret).address_lookup_table_addresses) >= 2
    /\ Unwrap(ret).address_lookup_table_addresses[1]
           # Unwrap(ret).address_lookup_table_addresses[2]

\* every field of the wire shape is there, with the JSON type it takes
StructurallyCompleteAccount(j) ==
    /\ j.st = "obj"
    /\ j.v[1].pubkey.st = "str"
    /\ j.v[1].isSigner.st = "bool"
    /\ j.v[1].isWritable.st = "bool"

StructurallyCompleteDoc(j) ==
    /\ j.st = "obj"
    /\ j.v[1].swapInstruction.st = "obj"
    /\ j.v[1].swapInstruction.v[1].programId.st = "str"
    /\ j.v[1].swapInstruction.v[1].accounts.st = "arr"
    /\ \A i \in 1..Len(j.v[1].swapInstruction.v[1].accounts.v) :
          StructurallyCompleteAccount(j.v[1].swapInstruction.v[1].accounts.v[i])
    /\ j.v[1].swapInstruction.v[1].data.st = "str"
    /\ j.v[1].addressLookupTableAddresses.st = "arr"
    /\ \A i \in 1..Len(j.v[1].addressLookupTableAddresses.v) :
          j.v[1].addressLookupTableAddresses.v[i].st = "str"

\* the response is a success whose body is a complete document in which a
\* field codec rejects a value (an address text or the base-64 text)
FieldCodecRejects(resp) ==
    /\ is_success(resp.status)
    /\ resp.readable
    /\ resp.body.kind = "json"
    /\ StructurallyCompleteDoc(resp.body.doc[1])
    /\ ~WellFormedDoc(resp.body.doc[1])

\* the response is a success whose body is no JSON, or the empty object
StructuralFailures ==
    { Response(200, TRUE, TextBody("not json")),
      Response(200, TRUE, JsonBody(Obj([swapInstruction |-> Absent,
                                        addressLookupTableAddresses |-> Absent]))) }

\* the kinds of error returned for a body that is no JSON or lacks a field
StructuralKinds == { swap_instructions_returns(r).err.variant : r \in StructuralFailures }

\* the diagnostics the two field codecs give
CodecDiagnostics == {"Parse error", "base64 decoding error"}

\* C9 as claimed: when a field codec rejects a value of the body, the call
\* returns an error of a kind of its own, which is none of the kinds returned
\* for a body that is not valid JSON or lacks a required field.
C9_FieldErrorHasOwnKind ==
    step = "returned" /\ FieldCodecRejects(arg) =>
        /\ ~ret.ok
        /\ ret.err.variant \notin StructuralKinds

\* C9 as amended: when a field codec rejects a value of the body, the call
\* returns an error, of the one kind SimdJsonError that is also returned for
\* a body that is not valid JSON or lacks a required field; only the
\* diagnostic it carries tells the two apart: the codec's for a rejected
\* value, another for a structural failure.
C9_FieldErrorSharesKind ==
    /\ step = "returned" /\ FieldCodecRejects(arg) =>
          /\ ~ret.ok
          /\ ret.err.variant = "SimdJsonError"
          /\ ret.err.variant \in StructuralKinds
          /\ ret.err.source \in CodecDiagnostics
    /\ step = "returned" /\ arg \in StructuralFailures =>
          /\ ~ret.ok
          /\ ret.err.variant = "SimdJsonError"
          /\ ret.err.source \notin CodecDiagnostics

\* a complete document with an invalid address text has been answered
C9_Witness ==
    /\ step = "returned"
    /\ FieldCodecRejects(arg)
    /\ ret.err.source = "Parse error"

-----------------------------------------------------------------------------
(* The building of the quote and swap requests as a state machine: the    *)
(* request is built from the arguments, and the service reads its query.  *)

PassthroughKeys == {"inputMint", "amount", "slippageBps", "onlyDirectRoutes"}

PassthroughValues == { <<"5", "0">>, <<"t", "r", "u", "e">> }

\* the passthrough maps of at most MaxArgs entries, each in every order
PassthroughMaps ==
    { m \in SeqsUpTo(PassthroughKeys \X PassthroughValues, MaxArgs) :
        \A i, k \in 1..Len(m) : i # k => m[i][1] # m[k][1] }

OptionalMaps == {None} \cup {Some(m) : m \in PassthroughMaps}

QuoteDoc(id) == [complete |-> TRUE, outAmount |-> id]

QuoteRequests ==
    { [input_mint |-> i, output_mint |-> o, amount |-> a, quote_args |-> q] :
        i \in {AddrA}, o \in {AddrA, AddrB}, a \in {1, 25}, q \in OptionalMaps }

SwapRequests ==
    { [user_public_key |-> u, quote_response |-> QuoteDoc(7),
       config |-> [dynamic_compute_unit_limit |-> d]] :
        u \in {AddrA, AddrB}, d \in BOOLEAN }

NoQuoteRequest == [input_mint |-> AddrA, output_mint |-> AddrA, amount |-> 0, quote_args |-> None]

NoSwapRequest ==
    [user_public_key |-> AddrA, quote_response |-> QuoteDoc(0),
     config |-> [dynamic_compute_unit_limit |-> FALSE]]

InitQuery ==
    /\ TransportInit
    /\ arg \in { [op |-> "quote", quote_request |-> q, swap_request |-> NoSwapRequest,
                  extra_args |-> None] : q \in QuoteRequests }
          \cup { [op |-> "swap", quote_request |-> NoQuoteRequest, swap_request |-> r,
                  extra_args |-> e] : r \in SwapRequests, e \in OptionalMaps }
    /\ mid = NoRequest
    /\ ret = [rule |-> "none", params |-> <<>>]
    /\ step = "called"

QueryBuildQuote ==
    /\ step = "called"
    /\ arg.op = "quote"
    /\ mid' = quote_build(base_path, arg.quote_request)
    /\ step' = "sent"
    /\ UNCHANGED <<arg, ret>>
    /\ UNCHANGED transportVars

QueryBuildSwap ==
    /\ step = "called"
    /\ arg.op = "swap"
    /\ mid' = swap_build(base_path, arg.swap_request, arg.extra_args)
    /\ step' = "sent"
    /\ UNCHANGED <<arg, ret>>
    /\ UNCHANGED transportVars

\* the service reads the query string it was sent
QueryServerReads ==
    /\ step = "sent"
    /\ \E rule \in {"first", "last"} :
          ret' = [rule |-> rule, params |-> ServerReads(mid.query, rule)]
    /\ step' = "read"
    /\ UNCHANGED <<arg, mid>>
    /\ UNCHANGED transportVars

NextQuery == QueryBuildQuote \/ QueryBuildSwap \/ QueryServerReads

SpecQuery == InitQuery /\ [][NextQuery]_vars

\* the pairs of the fixed fields of the quote request of arg
FixedPairs == InternalQuoteRequest_serialize(InternalQuoteRequest_from(arg.quote_request))

\* the keys of the passthrough map of the quote request of arg
QuoteArgKeys == QueryKeys(extra_args_serialize(arg.quote_request.quote_args))

\* C5 as claimed: a passthrough key that collides with a fixed-field key does
\* not overwrite the fixed field: no quote with such a key is sent (it is
\* rejected), or the value the service reads for every fixed key is the one
\* of the typed argument.
C5_FixedFieldWins ==
    step = "read" /\ arg.op = "quote" /\ QuoteArgKeys \cap FixedKeys # {} =>
        \A i \in 1..Len(FixedPairs) : ret.params[FixedPairs[i][1]] = FixedPairs[i][2]

\* C10: passthrough keys that are no fixed-field keys leave the pairs of the
\* fixed fields in the quote's query string as they are without a
\* passthrough map, keys, values and order; the passthrough map of a swap
\* goes into the query string alone, and the JSON body is the SwapRequest
\* as it is without a map.
C10_PassthroughIndependence ==
    /\ step \in {"sent", "read"} /\ arg.op = "quote" /\ QuoteArgKeys \cap FixedKeys = {} =>
          /\ SelectSeq(mid.query, LAMBDA kv : kv[1] \in FixedKeys) = FixedPairs
          /\ SelectSeq(mid.query, LAMBDA kv : kv[1] \in FixedKeys)
                = quote_build(base_path, [arg.quote_request EXCEPT !.quote_args = None]).query
    /\ step \in {"sent", "read"} /\ arg.op = "swap" =>
          /\ mid.query = extra_args_serialize(arg.extra_args)
          /\ mid.json = swap_build(base_path, arg.swap_request, None).json
          /\ mid.json = Some(SwapRequest_serialize(arg.swap_request))

\* a quote with two passthrough keys, neither a fixed one, has been sent
C10_Witness ==
    /\ step = "sent"
    /\ arg.op = "quote"
    /\ Cardinality(QuoteArgKeys) = 2
    /\ QuoteArgKeys \cap FixedKeys = {}
    /\ Len(mid.query) = 5

-----------------------------------------------------------------------------
(* The client: calls issued concurrently on one JupiterSwapApiClient.  A  *)
(* call is suspended where it awaits: at "send" for the response, at      *)
(* "text" for the body of a failed response, at "bytes" for the body of a *)
(* successful one, at "json" for the body health() deserializes.          *)

Ops == {"quote", "swap", "swap_instructions", "health"}

\* the type each operation deserializes the body into
ResponseType(o) ==
    CASE o = "quote" -> "QuoteResponse"
      [] o = "swap" -> "SwapResponse"
      [] o = "swap_instructions" -> "SwapInstructionsResponseInternal"
      [] o = "health" -> "HealthResponse"

GoodSwapDoc ==
    Obj([swapTransaction |-> Str(<<"A", "Q", "I", "D">>),
         lastValidBlockHeight |-> Num(100),
         prioritizationFeeLamports |-> Num(5),
         computeUnitLimit |-> Num(1400),
         prioritizationType |-> Absent,
         dynamicSlippageReport |-> Null,
         simulationError |-> Absent])

\* a well-formed body for each operation
GoodDoc(o) ==
    CASE o = "quote" -> Obj(QuoteDoc(3))
      [] o = "swap" -> GoodSwapDoc
      [] o = "swap_instructions" -> GoodInstructionsDoc
      [] o = "health" -> Obj([status |-> "ok"])

\* the responses the service may give to a call of o
ResponsesFor(o) ==
    { Response(200, TRUE, JsonBody(GoodDoc(o))),
      Response(200, TRUE, TextBody("not json")),
      Response(404, TRUE, JsonBody(GoodDoc(o))),
      Response(500, TRUE, TextBody("internal error")),
      Response(500, FALSE, TextBody("internal error")) }

\* the buffer of one call shared by all
bytes_vec_shared(c) == response[1].body

\* let mut bytes_vec = bytes.to_vec(): the body of the call's own response
bytes_vec(c) == response[c].body

\* the response of call c with the body as the call reads it
ResponseRead(c) == Response(response[c].status, response[c].readable, bytes_vec(c))

\* the result of check_status_code_and_deserialize as the operation returns it
returned(o, r) == IF o = "swap_instructions" THEN map_into(r) ELSE r

\* what operation o returns for the response resp
Returns(o, resp) ==
    IF o = "health" THEN response_json(ResponseType(o), resp)
    ELSE returned(o, check_status_code_and_deserialize(ResponseType(o), resp))

\* the arguments the calls are made with
AQuoteRequest == [input_mint |-> AddrA, output_mint |-> AddrB, amount |-> 25, quote_args |-> None]

ASwapRequest ==
    [user_public_key |-> AddrA, quote_response |-> QuoteDoc(7),
     config |-> [dynamic_compute_unit_limit |-> TRUE]]

Init ==
    /\ TransportInit
    /\ arg = None
    /\ mid = None
    /\ ret = None
    /\ step = "none"

\* quote(&self, quote_request) up to send().await
CallQuote(c) ==
    /\ pc[c] = "idle"
    /\ request' = [request EXCEPT ![c] = quote_build(base_path, AQuoteRequest)]
    /\ op' = [op EXCEPT ![c] = "quote"]
    /\ pc' = [pc EXCEPT ![c] = "send"]
    /\ UNCHANGED <<base_path, client, response, result, pureVars>>

\* swap(&self, swap_request, extra_args) up to send().await
CallSwap(c) ==
    /\ pc[c] = "idle"
    /\ request' = [request EXCEPT ![c] = swap_build(base_path, ASwapRequest, None)]
    /\ op' = [op EXCEPT ![c] = "swap"]
    /\ pc' = [pc EXCEPT ![c] = "send"]
    /\ UNCHANGED <<base_path, client, response, result, pureVars>>

\* swap_instructions(&self, swap_request) up to send().await
CallSwapInstructions(c) ==
    /\ pc[c] = "idle"
    /\ request' = [request EXCEPT ![c] = swap_instructions_build(base_path, ASwapRequest)]
    /\ op' = [op EXCEPT ![c] = "swap_instructions"]
    /\ pc' = [pc EXCEPT ![c] = "send"]
    /\ UNCHANGED <<base_path, client, response, result, pureVars>>

\* health(&self) up to send().await
CallHealth(c) ==
    /\ pc[c] = "idle"
    /\ request' = [request EXCEPT ![c] = health_build(base_path)]
    /\ op' = [op EXCEPT ![c] = "health"]
    /\ pc' = [pc EXCEPT ![c] = "send"]
    /\ UNCHANGED <<base_path, client, response, result, pureVars>>

\* send().await? fails: the reqwest::Error is returned as DeserializationError
SendFailed(c) ==
    /\ pc[c] = "send"
    /\ result' = [result EXCEPT ![c] = Err(DeserializationError("send"))]
    /\ pc' = [pc EXCEPT ![c] = "done"]
    /\ UNCHANGED <<base_path, client, op, request, response, pureVars>>

\* send().await yields a response; health() goes on to json(), the others
\* to check_is_success, which awaits text() or lets bytes() be awaited
SendResponded(c) ==
    /\ pc[c] = "send"
    /\ \E r \in ResponsesFor(op[c]) :
          /\ response' = [response EXCEPT ![c] = r]
          /\ pc' = [pc EXCEPT ![c] =
                       IF op[c] = "health" THEN "json"
                       ELSE IF check_is_success(r).ok THEN "bytes" ELSE "text"]
    /\ UNCHANGED <<base_path, client, op, request, result, pureVars>>

\* response.text().await in check_is_success, and the error returned
TextRead(c) ==
    /\ pc[c] = "text"
    /\ result' = [result EXCEPT ![c] = Returns(op[c], ResponseRead(c))]
    /\ pc' = [pc EXCEPT ![c] = "done"]
    /\ UNCHANGED <<base_path, client, op, request, response, pureVars>>

\* response.bytes().await, from_slice, and the result returned
BytesRead(c) ==
    /\ pc[c] = "bytes"
    /\ result' = [result EXCEPT ![c] = Returns(op[c], ResponseRead(c))]
    /\ pc' = [pc EXCEPT ![c] = "done"]
    /\ UNCHANGED <<base_path, client, op, request, response, pureVars>>

\* response.json::<HealthResponse>().await in health(), and the result returned
JsonRead(c) ==
    /\ pc[c] = "json"
    /\ result' = [result EXCEPT ![c] = Returns(op[c], ResponseRead(c))]
    /\ pc' = [pc EXCEPT ![c] = "done"]
    /\ UNCHANGED <<base_path, client, op, request, response, pureVars>>

\* the future of a suspended call is dropped
Cancel(c) ==
    /\ pc[c] \in {"send", "text", "bytes", "json"}
    /\ pc' = [pc EXCEPT ![c] = "cancelled"]
    /\ UNCHANGED <<base_path, client, op, request, response, result, pureVars>>

Next ==
    \E c \in Calls :
        \/ CallQuote(c)
        \/ CallSwap(c)
        \/ CallSwapInstructions(c)
        \/ CallHealth(c)
        \/ SendFailed(c)
        \/ SendResponded(c)
        \/ TextRead(c)
        \/ BytesRead(c)
        \/ JsonRead(c)
        \/ Cancel(c)

Spec == Init /\ [][Next]_vars

\* call c has returned after a response came
Answered(c) == pc[c] = "done" /\ response[c] # NoResponse

\* C1: quote, swap and swap_instructions look at the status before the body
\* is parsed: when the status of the response is no success, the call returns
\* RequestFailed with that status and the body as received (the empty string
\* when the body cannot be read), whether the body is JSON or not.
C1_StatusBeforeBody ==
    \A c \in Calls :
        Answered(c) /\ op[c] \in {"quote", "swap", "swap_instructions"}
                    /\ ~is_success(response[c].status) =>
            /\ ~result[c].ok
            /\ result[c].err.variant = "RequestFailed"
            /\ result[c].err.status = response[c].status
            /\ result[c].err.body = IF response[c].readable THEN response[c].body
                                    ELSE EmptyBody

\* the three operations have each returned RequestFailed, for a body that
\* is no JSON and for a body that could not be read
C1_Witness ==
    \E c, d \in Calls :
        /\ Answered(c) /\ Answered(d)
        /\ op[c] \in {"quote", "swap"} /\ op[d] = "swap_instructions"
        /\ response[c].status = 500 /\ response[c].readable
        /\ result[c].err.body = TextBody("internal error")
        /\ response[d].status = 500 /\ ~response[d].readable
        /\ result[d].err.variant = "RequestFailed"
        /\ result[d].err.body = EmptyBody

\* C2 as claimed: health() too returns RequestFailed, with the status and the
\* body text, when the status of the response is no success, and does not
\* deserialize the body.
C2_HealthChecksStatus ==
    \A c \in Calls :
        Answered(c) /\ op[c] = "health" /\ ~is_success(response[c].status) =>
            /\ ~result[c].ok
            /\ result[c].err.variant = "RequestFailed"
            /\ result[c].err.status = response[c].status
            /\ result[c].err.body = IF response[c].readable THEN response[c].body
                                    ELSE EmptyBody

\* the state of one call
CallState(c) == <<pc[c], op[c], request[c], response[c], result[c]>>

\* C6: calls issued concurrently on one client are independent.  In every
\* step of every interleaving the client (base_path, the pool's handle) is
\* left as it is, at most one call's state changes, a call that has
\* returned has returned what its own operation yields for its own response
\* (or the error of its own failed send), and a cancelled call has returned
\* nothing.
C6_CallsIndependent ==
    [][ /\ base_path' = base_path
        /\ client' = client
        /\ \E c \in Calls : \A d \in Calls \ {c} : CallState(d)' = CallState(d)
        /\ \A c \in Calls :
              /\ pc'[c] = "done" /\ response'[c] # NoResponse =>
                    result'[c] = Returns(op'[c], response'[c])
              /\ pc'[c] = "done" /\ response'[c] = NoResponse =>
                    result'[c] = Err(DeserializationError("send"))
              /\ pc'[c] = "cancelled" => result'[c] = Pending
              /\ pc[c] # "idle" => op'[c] = op[c] /\ request'[c] = request[c]
      ]_vars

\* two calls have received different responses and both have returned, one
\* after the other was cancelled or answered
C6_Witness ==
    \E c, d \in Calls :
        /\ c # d
        /\ Answered(c) /\ Answered(d)
        /\ response[c].body # response[d].body
        /\ result[c] # result[d]

====
